---- MODULE Spec2Model ----
(***************************************************************************)
(* smam: the Signal Multi Account Manager (src/src/smam_package/smam.py).  *)
(*                                                                         *)
(* The program's state is the filesystem under the user's home directory   *)
(* (the registry file accounts.json, the profile directories, the          *)
(* .desktop launcher files), whether signal-desktop is on the PATH, and    *)
(* the position of the process (stopped, or waiting in the menu loop).     *)
(*                                                                         *)
(* A Python str is modelled as a Text: a sequence of symbols.  A symbol    *)
(* stands for a fixed run of characters ("Signal", "..", "a", " ", "/"),   *)
(* so that str.replace, str.strip, str.lower, int(), pathlib's splitting   *)
(* on "/", json.dump and json.load are computed symbol by symbol.  The     *)
(* filesystem has no symbolic links.                                       *)
(***************************************************************************)
EXTENDS Integers, Sequences, FiniteSets, TLC

VARIABLES
    dirs,       \* the directories that exist: a set of canonical paths
    files,      \* the regular files that exist: canonical path -> content (a Text)
    installed,  \* whether signal-desktop is found on the PATH
    pc,         \* "stopped" (no process) or "menu" (main's while loop awaits a choice)
    last        \* what the last operation was given and what it did (history)

vars == <<dirs, files, installed, pc, last>>

(***************************************************************************)
(* Bounds of the model.                                                    *)
(***************************************************************************)
MaxAccounts == 2    \* add is not offered once the registry holds this many entries
MaxBytes == 3       \* length of the byte strings load is tried on
MaxRecords == 2     \* length of the account lists save is tried on

(***************************************************************************)
(* Text: str operations.                                                   *)
(***************************************************************************)
Whitespace == {" ", "\n"}

\* str.replace(old, new) for one-symbol old and new
RECURSIVE Replace(_, _, _)
Replace(s, old, new) ==
    IF s = <<>> THEN <<>>
    ELSE <<IF Head(s) = old THEN new ELSE Head(s)>> \o Replace(Tail(s), old, new)

RECURSIVE LStrip(_)
LStrip(s) ==
    IF s # <<>> /\ Head(s) \in Whitespace THEN LStrip(Tail(s)) ELSE s

RECURSIVE RStrip(_)
RStrip(s) ==
    IF s # <<>> /\ s[Len(s)] \in Whitespace THEN RStrip(SubSeq(s, 1, Len(s) - 1)) ELSE s

\* str.strip()
Strip(s) == RStrip(LStrip(s))

LowerSym(c) == IF c = "Y" THEN "y" ELSE IF c = "N" THEN "n" ELSE c

\* str.lower(), on the texts typed at the y/n prompts
RECURSIVE Lower(_)
Lower(s) == IF s = <<>> THEN <<>> ELSE <<LowerSym(Head(s))>> \o Lower(Tail(s))

Digits == {"0", "1", "2", "3", "4", "5", "6", "7", "8", "9"}

DigitVal(c) ==
    CASE c = "0" -> 0 [] c = "1" -> 1 [] c = "2" -> 2 [] c = "3" -> 3 [] c = "4" -> 4
      [] c = "5" -> 5 [] c = "6" -> 6 [] c = "7" -> 7 [] c = "8" -> 8 [] c = "9" -> 9

RECURSIVE DigitsVal(_, _)
DigitsVal(s, acc) ==
    IF s = <<>> THEN acc ELSE DigitsVal(Tail(s), 10 * acc + DigitVal(Head(s)))

AllDigits(s) == s # <<>> /\ \A i \in 1..Len(s) : s[i] \in Digits

\* int(s) once s is stripped: an optional sign, decimal digits; otherwise
\* ValueError (ok = FALSE)
ParseIntStripped(t) ==
    LET signed == t # <<>> /\ Head(t) \in {"-", "+"}
        body == IF signed THEN Tail(t) ELSE t
    IN  IF AllDigits(body)
        THEN [ok |-> TRUE,
              val |-> IF signed /\ Head(t) = "-" THEN 0 - DigitsVal(body, 0)
                      ELSE DigitsVal(body, 0)]
        ELSE [ok |-> FALSE, val |-> 0]

\* int(s): surrounding whitespace is ignored
ParseInt(s) == ParseIntStripped(Strip(s))

(***************************************************************************)
(* Paths.  A path string is a Text with "/" separators; pathlib and the    *)
(* kernel split it into components, dropping empty and "." components.     *)
(* A canonical path is the sequence of components from the root, without   *)
(* "..".                                                                   *)
(***************************************************************************)
DotDot == <<"..">>

RECURSIVE SplitAcc(_, _, _)
SplitAcc(s, cur, acc) ==
    LET flush == IF cur = <<>> \/ cur = <<".">> THEN acc ELSE Append(acc, cur)
    IN  IF s = <<>> THEN flush
        ELSE IF Head(s) = "/" THEN SplitAcc(Tail(s), <<>>, flush)
        ELSE SplitAcc(Tail(s), Append(cur, Head(s)), acc)

\* pathlib.Path(s).parts after the root, for an absolute s
Components(s) == SplitAcc(s, <<>>, <<>>)

RECURSIVE JoinPath(_)
JoinPath(comps) ==
    IF comps = <<>> THEN <<>> ELSE <<"/">> \o Head(comps) \o JoinPath(Tail(comps))

\* str(Path(s)) for an absolute s below the root
PathStr(s) == JoinPath(Components(s))

Step(cur, c) ==
    IF c = DotDot THEN (IF cur = <<>> THEN <<>> ELSE SubSeq(cur, 1, Len(cur) - 1))
    ELSE Append(cur, c)

RECURSIVE ResolveFrom(_, _)
ResolveFrom(comps, cur) ==
    IF comps = <<>> THEN cur ELSE ResolveFrom(Tail(comps), Step(cur, Head(comps)))

\* Path(s).resolve(): without symbolic links, ".." is taken lexically
Resolve(s) == ResolveFrom(Components(s), <<>>)

\* The kernel's path walk: every component but the last must lead through an
\* existing directory.  ok = FALSE is ENOENT/ENOTDIR on the way.
RECURSIVE Walk(_, _, _)
Walk(comps, cur, D) ==
    IF comps = <<>> THEN [ok |-> TRUE, p |-> cur]
    ELSE IF cur \notin D THEN [ok |-> FALSE, p |-> cur]
    ELSE Walk(Tail(comps), Step(cur, Head(comps)), D)

Lookup(s, D) == Walk(Components(s), <<>>, D)

\* Path(s).exists(), w being where the walk of s ends
ExistsAt(w, D, F) == w.ok /\ (w.p \in D \/ w.p \in DOMAIN F)

Exists(s, D, F) == ExistsAt(Lookup(s, D), D, F)

\* Path(s).mkdir(parents=True, exist_ok=True): os.mkdir on each lexical prefix
\* in turn; a prefix that is a regular file raises.
RECURSIVE MkdirFrom(_, _, _, _)
MkdirFrom(comps, cur, D, F) ==
    IF comps = <<>> THEN [raised |-> "none", dirs |-> D]
    ELSE LET nxt == Step(cur, Head(comps))
         IN  IF nxt \in DOMAIN F THEN [raised |-> "FileExistsError", dirs |-> D]
             ELSE MkdirFrom(Tail(comps), nxt, D \cup {nxt}, F)

MkdirParents(s, D, F) == MkdirFrom(Components(s), <<>>, D, F)

IsPrefix(p, q) == Len(p) <= Len(q) /\ SubSeq(q, 1, Len(p)) = p

Restrict(F, S) == [p \in S |-> F[p]]

\* shutil.rmtree(s), w being where the walk of s ends: removes the directory
\* and everything below it; raises when s does not lead to a directory, or
\* when the environment refuses (fault), and then removes nothing.
RmtreeAt(w, D, F, fault) ==
    IF fault THEN [raised |-> "PermissionError", dirs |-> D, files |-> F]
    ELSE IF ~(w.ok /\ w.p \in D)
    THEN [raised |-> "FileNotFoundError", dirs |-> D, files |-> F]
    ELSE [raised |-> "none",
          dirs |-> {d \in D : ~IsPrefix(w.p, d)},
          files |-> Restrict(F, {f \in DOMAIN F : ~IsPrefix(w.p, f)})]

Rmtree(s, D, F, fault) == RmtreeAt(Lookup(s, D), D, F, fault)

\* open(s, "w") and a write of the content: creates or truncates the file
OpenWriteAt(w, content, D, F) ==
    IF ~w.ok THEN [raised |-> "FileNotFoundError", files |-> F]
    ELSE IF w.p \in D THEN [raised |-> "IsADirectoryError", files |-> F]
    ELSE [raised |-> "none",
          files |-> [p \in DOMAIN F \cup {w.p} |-> IF p = w.p THEN content ELSE F[p]]]

OpenWrite(s, content, D, F) == OpenWriteAt(Lookup(s, D), content, D, F)

\* Path(s).unlink()
UnlinkAt(w, D, F, fault) ==
    IF fault THEN [raised |-> "PermissionError", files |-> F]
    ELSE IF ~(w.ok /\ w.p \in DOMAIN F)
    THEN [raised |-> "FileNotFoundError", files |-> F]
    ELSE [raised |-> "none", files |-> Restrict(F, DOMAIN F \ {w.p})]

Unlink(s, D, F, fault) == UnlinkAt(Lookup(s, D), D, F, fault)

(***************************************************************************)
(* JSON.  A Python value read from or written to the registry file is a    *)
(* tagged record: a str (v: its Text), an int, a list (v: the sequence of  *)
(* its items) or a dict (v: the sequence of its <<key, value>> pairs in    *)
(* insertion order, keys being Texts).                                     *)
(***************************************************************************)
Quote == "\""
Backslash == "\\"
BadByte == "0xFF"    \* a byte that is not valid UTF-8

PyStr(t) == [t |-> "str", v |-> t]
PyInt(n) == [t |-> "int", v |-> n]
PyList(items) == [t |-> "list", v |-> items]
PyDict(pairs) == [t |-> "dict", v |-> pairs]

\* d[key] for a dict d that has the key
RECURSIVE PairsGet(_, _)
PairsGet(pairs, key) ==
    IF Head(pairs)[1] = key THEN Head(pairs)[2] ELSE PairsGet(Tail(pairs), key)

DictGet(d, key) == PairsGet(d.v, key)

\* d[key] = value: a new key goes last, a known key keeps its place
RECURSIVE PairsSet(_, _, _)
PairsSet(pairs, key, value) ==
    IF pairs = <<>> THEN <<>>
    ELSE <<IF Head(pairs)[1] = key THEN <<key, value>> ELSE Head(pairs)>>
             \o PairsSet(Tail(pairs), key, value)

DictSet(pairs, key, value) ==
    IF \E i \in 1..Len(pairs) : pairs[i][1] = key
    THEN PairsSet(pairs, key, value)
    ELSE Append(pairs, <<key, value>>)

RECURSIVE Spaces(_)
Spaces(n) == IF n = 0 THEN <<>> ELSE <<" ">> \o Spaces(n - 1)

\* A faulty variant of the encoder that escapes nothing.
EscapeNothing(s) == s

RECURSIVE EscapeText(_)
EscapeText(s) ==
    IF s = <<>> THEN <<>>
    ELSE (IF Head(s) \in {Quote, Backslash} THEN <<Backslash, Head(s)>>
          ELSE IF Head(s) = "\n" THEN <<Backslash, "n">>
          ELSE <<Head(s)>>) \o EscapeText(Tail(s))

DumpStr(s) == <<Quote>> \o EscapeText(s) \o <<Quote>>

RECURSIVE IntDigits(_)
IntDigits(n) ==
    LET d == CHOOSE c \in Digits : DigitVal(c) = n % 10
    IN  IF n < 10 THEN <<d>> ELSE IntDigits(n \div 10) \o <<d>>

\* json.dumps(value, indent=2), at nesting depth lvl
RECURSIVE DumpVal(_, _)
RECURSIVE DumpItems(_, _)
RECURSIVE DumpPairs(_, _)
DumpItems(items, lvl) ==
    <<"\n">> \o Spaces(2 * lvl) \o DumpVal(Head(items), lvl)
        \o (IF Len(items) = 1 THEN <<>> ELSE <<",">> \o DumpItems(Tail(items), lvl))
DumpPairs(pairs, lvl) ==
    <<"\n">> \o Spaces(2 * lvl) \o DumpStr(Head(pairs)[1]) \o <<":", " ">>
        \o DumpVal(Head(pairs)[2], lvl)
        \o (IF Len(pairs) = 1 THEN <<>> ELSE <<",">> \o DumpPairs(Tail(pairs), lvl))
DumpVal(val, lvl) ==
    CASE val.t = "str" -> DumpStr(val.v)
      [] val.t = "int" -> (IF val.v < 0 THEN <<"-">> \o IntDigits(0 - val.v)
                           ELSE IntDigits(val.v))
      [] val.t = "list" ->
            IF val.v = <<>> THEN <<"[", "]">>
            ELSE <<"[">> \o DumpItems(val.v, lvl + 1)
                     \o <<"\n">> \o Spaces(2 * lvl) \o <<"]">>
      [] val.t = "dict" ->
            IF val.v = <<>> THEN <<"{", "}">>
            ELSE <<"{">> \o DumpPairs(val.v, lvl + 1)
                     \o <<"\n">> \o Spaces(2 * lvl) \o <<"}">>

\* json.dump(value, f, indent=2); without indent an empty list is the same "[]"
Dump(val) == DumpVal(val, 0)

ParseFail == [ok |-> FALSE, val |-> PyInt(0), pos |-> 0]

RECURSIVE SkipWs(_, _)
SkipWs(s, i) == IF i <= Len(s) /\ s[i] \in Whitespace THEN SkipWs(s, i + 1) ELSE i

\* the body of a string literal, from the symbol after its opening quote
RECURSIVE ScanString(_, _, _)
ScanString(s, i, acc) ==
    IF i > Len(s) THEN ParseFail
    ELSE IF s[i] = Quote THEN [ok |-> TRUE, val |-> PyStr(acc), pos |-> i + 1]
    ELSE IF s[i] = Backslash
    THEN IF i + 1 <= Len(s) /\ s[i + 1] \in {Quote, Backslash}
         THEN ScanString(s, i + 2, Append(acc, s[i + 1]))
         ELSE IF i + 1 <= Len(s) /\ s[i + 1] = "n"
         THEN ScanString(s, i + 2, Append(acc, "\n"))
         ELSE ParseFail
    ELSE IF s[i] = "\n" THEN ParseFail      \* a control character inside a string
    ELSE ScanString(s, i + 1, Append(acc, s[i]))

RECURSIVE DigitRun(_, _)
DigitRun(s, i) == IF i <= Len(s) /\ s[i] \in Digits THEN DigitRun(s, i + 1) ELSE i

\* an integer literal -?(0|[1-9][0-9]*) whose digits are s[j..k-1]
NumberAt(s, neg, j, k) ==
    IF k = j THEN ParseFail
    ELSE [ok |-> TRUE,
          val |-> PyInt(IF neg THEN 0 - DigitsVal(SubSeq(s, j, k - 1), 0)
                        ELSE DigitsVal(SubSeq(s, j, k - 1), 0)),
          pos |-> k]

NumberFrom(s, neg, j) ==
    NumberAt(s, neg, j, IF j <= Len(s) /\ s[j] = "0" THEN j + 1 ELSE DigitRun(s, j))

ScanNumber(s, i) == NumberFrom(s, s[i] = "-", IF s[i] = "-" THEN i + 1 ELSE i)

\* json.scanner's scan_once at position i, and the array and object bodies.
\* Each step takes what the step before it scanned.
RECURSIVE ScanValue(_, _)
RECURSIVE ScanArray(_, _, _)
RECURSIVE ScanObject(_, _, _)

\* after an item r and the whitespace behind it, at j
ArrayAfterItem(s, r, j, acc) ==
    IF j > Len(s) THEN ParseFail
    ELSE IF s[j] = "]"
    THEN [ok |-> TRUE, val |-> PyList(Append(acc, r.val)), pos |-> j + 1]
    ELSE IF s[j] = "," THEN ScanArray(s, SkipWs(s, j + 1), Append(acc, r.val))
    ELSE ParseFail

ArrayItem(s, r, acc) ==
    IF ~r.ok THEN ParseFail ELSE ArrayAfterItem(s, r, SkipWs(s, r.pos), acc)

\* i is at the start of an item; acc holds the items before it
ScanArray(s, i, acc) == ArrayItem(s, ScanValue(s, i), acc)

\* after a pair and the whitespace behind it, at j; pairs holds the pairs so far
ObjectAfterPair(s, j, pairs) ==
    IF j > Len(s) THEN ParseFail
    ELSE IF s[j] = "}" THEN [ok |-> TRUE, val |-> PyDict(pairs), pos |-> j + 1]
    ELSE IF s[j] = "," THEN ScanObject(s, SkipWs(s, j + 1), pairs)
    ELSE ParseFail

ObjectValue(s, k, r, acc) ==
    IF ~r.ok THEN ParseFail
    ELSE ObjectAfterPair(s, SkipWs(s, r.pos), DictSet(acc, k.val.v, r.val))

\* after a key k and the whitespace behind it, at c
ObjectAfterKey(s, k, c, acc) ==
    IF c > Len(s) \/ s[c] # ":" THEN ParseFail
    ELSE ObjectValue(s, k, ScanValue(s, SkipWs(s, c + 1)), acc)

ObjectKey(s, k, acc) ==
    IF ~k.ok THEN ParseFail ELSE ObjectAfterKey(s, k, SkipWs(s, k.pos), acc)

\* i is at the start of a key; acc holds the pairs before it
ScanObject(s, i, acc) ==
    IF i > Len(s) \/ s[i] # Quote THEN ParseFail
    ELSE ObjectKey(s, ScanString(s, i + 1, <<>>), acc)

\* j is the first symbol after the opening bracket that is not whitespace
ArrayBody(s, j) ==
    IF j <= Len(s) /\ s[j] = "]" THEN [ok |-> TRUE, val |-> PyList(<<>>), pos |-> j + 1]
    ELSE ScanArray(s, j, <<>>)

ObjectBody(s, j) ==
    IF j <= Len(s) /\ s[j] = "}" THEN [ok |-> TRUE, val |-> PyDict(<<>>), pos |-> j + 1]
    ELSE ScanObject(s, j, <<>>)

ScanValue(s, i) ==
    IF i > Len(s) THEN ParseFail
    ELSE IF s[i] = Quote THEN ScanString(s, i + 1, <<>>)
    ELSE IF s[i] = "[" THEN ArrayBody(s, SkipWs(s, i + 1))
    ELSE IF s[i] = "{" THEN ObjectBody(s, SkipWs(s, i + 1))
    ELSE IF s[i] \in Digits \cup {"-"} THEN ScanNumber(s, i)
    ELSE ParseFail

\* nothing but whitespace may follow the value
LoadsEnd(s, r) == IF r.ok /\ SkipWs(s, r.pos) = Len(s) + 1 THEN r ELSE ParseFail

\* json.loads(s): ok = FALSE is json.JSONDecodeError
Loads(s) == LoadsEnd(s, ScanValue(s, SkipWs(s, 1)))

\* the text file object's read(): decoding as UTF-8 fails on an invalid byte
DecodeOk(bytes) == \A i \in 1..Len(bytes) : bytes[i] # BadByte

(***************************************************************************)
(* The program's constants (smam.py lines 11-15) and its functions.        *)
(* Each function takes the filesystem (D: directories, F: files) and       *)
(* returns the filesystem it leaves, with a log of what it read at its     *)
(* prompts, what it printed and the exception it raised, if any.           *)
(***************************************************************************)
Home == <<"/", "home">>                        \* Path.home()
MANAGER_CONFIG_DIR == Home \o <<"/", ".config", "/", "signal_account_manager">>
ACCOUNTS_JSON == MANAGER_CONFIG_DIR \o <<"/", "accounts.json">>
DEFAULT_SIGNAL_DIR == Home \o <<"/", ".config", "/", "Signal">>
DEFAULT_ACCOUNT_NAME == <<"Default">>
ApplicationsDir == Home \o <<"/", ".local", "/", "share", "/", "applications">>

KeyName == <<"name">>
KeyProfileDir == <<"profile_dir">>

Account(name, profile_dir) ==
    PyDict(<< <<KeyName, PyStr(name)>>, <<KeyProfileDir, PyStr(profile_dir)>> >>)

NotAsked == <<"<not asked>">>      \* a prompt the operation did not reach
NoAccount == PyDict(<<>>)          \* no account was picked
Yes == <<"y">>

BaseLog ==
    [op |-> "none", choice |-> NotAsked, name |-> NotAsked, confirm |-> NotAsked,
     rm_dir |-> NotAsked, create_icon |-> NotAsked, target |-> NoAccount,
     spawned |-> FALSE, out |-> <<>>, raised |-> "none", accounts |-> <<>>,
     on_path |-> TRUE, icon |-> NotAsked]

Ret(D, F, log) == [dirs |-> D, files |-> F, log |-> log]

\* the log of an operation that began with accounts = load_accounts()
Loaded(ld, r) == Ret(r.dirs, r.files, [r.log EXCEPT !.accounts = ld.val.v])

Say(log, msg) == [log EXCEPT !.out = Append(@, msg)]
Raise(log, exc) == [log EXCEPT !.raised = exc]

WithDirs(w, D) == [raised |-> w.raised, dirs |-> D, files |-> w.files]

\* ensure_config_dir lines 23-25, m being what the mkdir of line 22 did
ensure_registry_file(m, F) ==
    IF m.raised # "none" THEN [raised |-> m.raised, dirs |-> m.dirs, files |-> F]
    ELSE IF Exists(ACCOUNTS_JSON, m.dirs, F)
    THEN [raised |-> "none", dirs |-> m.dirs, files |-> F]
    ELSE WithDirs(OpenWrite(ACCOUNTS_JSON, Dump(PyList(<<>>)), m.dirs, F), m.dirs)

\* ensure_config_dir (lines 17-25)
ensure_config_dir(D, F) ==
    ensure_registry_file(MkdirParents(MANAGER_CONFIG_DIR, D, F), F)

\* lines 33-36: only json.JSONDecodeError is caught
LoadedOrEmpty(r) ==
    IF r.ok THEN [raised |-> "none", val |-> r.val]
    ELSE [raised |-> "none", val |-> PyList(<<>>)]

\* lines 32-36, w being where the walk to ACCOUNTS_JSON ends
ReadRegistry(w, D, F) ==
    IF ~w.ok \/ (w.p \notin D /\ w.p \notin DOMAIN F)
    THEN [raised |-> "FileNotFoundError", val |-> PyList(<<>>)]
    ELSE IF w.p \in D THEN [raised |-> "IsADirectoryError", val |-> PyList(<<>>)]
    ELSE IF ~DecodeOk(F[w.p]) THEN [raised |-> "UnicodeDecodeError", val |-> PyList(<<>>)]
    ELSE LoadedOrEmpty(Loads(F[w.p]))

\* load_accounts (lines 27-36)
load_accounts(D, F) == ReadRegistry(Lookup(ACCOUNTS_JSON, D), D, F)

\* save_accounts (lines 38-44)
save_accounts(accounts, D, F) == OpenWrite(ACCOUNTS_JSON, Dump(accounts), D, F)

ProfileDirOf(acc) == DictGet(acc, KeyProfileDir).v
NameOf(acc) == DictGet(acc, KeyName).v

\* lines 75-76, sv being what save_accounts did
auto_add_saved(sv, D) ==
    IF sv.raised # "none" THEN Ret(D, sv.files, Raise(BaseLog, sv.raised))
    ELSE Ret(D, sv.files, Say(BaseLog, "Detected existing default Signal directory"))

\* A faulty variant of lines 63-76 that appends without looking for a
\* registered entry that resolves to the default directory.
auto_add_unchecked(ld, D, F) ==
    IF ld.raised # "none" THEN Ret(D, F, Raise(BaseLog, ld.raised))
    ELSE auto_add_saved(
            save_accounts(PyList(Append(ld.val.v,
                Account(DEFAULT_ACCOUNT_NAME, PathStr(DEFAULT_SIGNAL_DIR)))), D, F), D)

\* lines 63-76, ld being what load_accounts returned
auto_add_loaded(ld, D, F) ==
    IF ld.raised # "none" THEN Ret(D, F, Raise(BaseLog, ld.raised))
    ELSE IF \E i \in 1..Len(ld.val.v) :
                Resolve(ProfileDirOf(ld.val.v[i])) = Resolve(DEFAULT_SIGNAL_DIR)
    THEN Ret(D, F, BaseLog)
    ELSE auto_add_saved(
            save_accounts(PyList(Append(ld.val.v,
                Account(DEFAULT_ACCOUNT_NAME, PathStr(DEFAULT_SIGNAL_DIR)))), D, F), D)

\* A faulty variant of lines 58-61 that does not look for the directory.
auto_add_unprobed(D, F) == auto_add_loaded(load_accounts(D, F), D, F)

\* auto_add_default_signal (lines 53-76)
auto_add_default_signal(D, F) ==
    IF ~Exists(DEFAULT_SIGNAL_DIR, D, F) THEN Ret(D, F, BaseLog)
    ELSE auto_add_loaded(load_accounts(D, F), D, F)

RECURSIVE AccountLines(_)
AccountLines(n) == IF n = 0 THEN <<>> ELSE AccountLines(n - 1) \o <<"account line">>

\* list_accounts (lines 78-88), given what its load_accounts() returned: the
\* lines it prints
list_accounts(ld) ==
    IF ld.raised # "none" THEN [raised |-> ld.raised, out |-> <<>>]
    ELSE IF ld.val.v = <<>> THEN [raised |-> "none", out |-> <<"No accounts found.">>]
    ELSE [raised |-> "none",
          out |-> <<"Existing accounts:">> \o AccountLines(Len(ld.val.v))]

\* the .desktop file's text (lines 104-111): its two interpolated values
DesktopFileContent(account_name, profile_dir_str) ==
    <<"[Desktop Entry]", "\n", "Name=Signal - ">> \o account_name
        \o <<"\n", "Exec=signal-desktop --user-data-dir=", Quote>> \o profile_dir_str
        \o <<Quote, "\n", "Type=Application">>

\* the path create_desktop_icon writes to (lines 96, 100-101)
CreatedDesktopPath(account_name) ==
    ApplicationsDir \o <<"/", "Signal", "-">> \o Replace(account_name, " ", "_")
        \o <<".desktop">>

\* lines 114-120, w being what the open and write did
icon_written(w, D, F, log) ==
    IF w.raised # "none" THEN Ret(D, F, Raise(log, w.raised))
    ELSE Ret(D, w.files, Say(log, "Created a desktop launcher"))

\* lines 100-120, m being what the mkdir of line 97 did
icon_write(account_name, profile_dir_str, m, F, log) ==
    IF m.raised # "none" THEN Ret(m.dirs, F, Raise(log, m.raised))
    ELSE icon_written(OpenWrite(CreatedDesktopPath(account_name),
                                DesktopFileContent(account_name, profile_dir_str),
                                m.dirs, F),
                      m.dirs, F, log)

\* create_desktop_icon (lines 90-120); chmod changes no modelled state
create_desktop_icon(account_name, profile_dir_str, D, F, log) ==
    icon_write(account_name, profile_dir_str, MkdirParents(ApplicationsDir, D, F), F, log)

\* A faulty variant of lines 130-131 that keeps the spaces of the label.
ProfileDirUnsanitized(name) ==
    PathStr(Home \o <<"/", ".config", "/", "Signal", "-">> \o name)

\* the profile directory add_account derives from the label (lines 130-131)
ProfileDirFor(name) ==
    PathStr(Home \o <<"/", ".config", "/", "Signal", "-">> \o Replace(name, " ", "_"))

AddLog(name, profile_dir_str, existed) ==
    [BaseLog EXCEPT !.op = "add", !.name = name,
                    !.target = Account(name, profile_dir_str),
                    !.out = IF existed THEN <<"Directory already exists">> ELSE <<>>]

\* lines 141-148, sv being what save_accounts did
add_saved(name, profile_dir_str, create_icon, existed, sv, D) ==
    LET log1 == AddLog(name, profile_dir_str, existed)
        log2 == [Say(log1, "Account added") EXCEPT !.create_icon = create_icon]
    IN  IF sv.raised # "none" THEN Ret(D, sv.files, Raise(log1, sv.raised))
        ELSE IF create_icon = Yes
        THEN create_desktop_icon(name, profile_dir_str, D, sv.files, log2)
        ELSE Ret(D, sv.files, Say(log2, "Skipping desktop launcher creation."))

\* lines 139-148, m being what the mkdir of line 137 did (nothing if the
\* directory existed)
add_made(ld, name, profile_dir_str, create_icon, existed, m, F) ==
    IF m.raised # "none"
    THEN Ret(m.dirs, F, Raise(AddLog(name, profile_dir_str, existed), m.raised))
    ELSE add_saved(name, profile_dir_str, create_icon, existed,
                   save_accounts(PyList(Append(ld.val.v, Account(name, profile_dir_str))),
                                 m.dirs, F),
                   m.dirs)

\* lines 133-148
add_checked(ld, name, profile_dir_str, create_icon, existed, D, F) ==
    add_made(ld, name, profile_dir_str, create_icon, existed,
             IF existed THEN [raised |-> "none", dirs |-> D]
             ELSE MkdirParents(profile_dir_str, D, F),
             F)

\* lines 130-148
add_named(ld, name, profile_dir_str, create_icon, D, F) ==
    add_checked(ld, name, profile_dir_str, create_icon,
                Exists(profile_dir_str, D, F), D, F)

add_stripped(ld, name, create_icon, D, F) ==
    add_named(ld, name, ProfileDirFor(name), create_icon, D, F)

\* add_account (lines 122-148), ld being what its load_accounts() returned
add_account(ld, rawName, rawIcon, D, F) ==
    Loaded(ld,
           IF ld.raised # "none"
           THEN Ret(D, F, Raise([BaseLog EXCEPT !.op = "add"], ld.raised))
           ELSE add_stripped(ld, Strip(rawName), Lower(rawIcon), D, F))

\* accounts[idx] of a Python list of length n: negative indices count from the end
InRange(n, idx) == 0 - n <= idx /\ idx < n
Position(n, idx) == IF idx >= 0 THEN idx + 1 ELSE n + idx + 1

\* del accounts[idx], by position
RemoveAt(s, k) == SubSeq(s, 1, k - 1) \o SubSeq(s, k + 1, Len(s))

NotPicked(log) == [ok |-> FALSE, k |-> 0, acc |-> NoAccount, log |-> log]

\* lines 161-166 and 193-198: idx = int(choice) - 1; acc = accounts[idx]
pick_index(accounts, log1, n) ==
    LET idx == n.val - 1
        k == Position(Len(accounts), idx)
    IN  IF ~n.ok \/ ~InRange(Len(accounts), idx)
        THEN NotPicked(Say(log1, "Invalid choice."))
        ELSE [ok |-> TRUE, k |-> k, acc |-> accounts[k],
              log |-> [log1 EXCEPT !.target = accounts[k]]]

pick_choice(accounts, op, ls, choice) ==
    pick_index(accounts, [BaseLog EXCEPT !.op = op, !.out = ls.out, !.choice = choice],
               ParseInt(choice))

PickLoaded(ld, pk) == [pk EXCEPT !.log.accounts = ld.val.v]

\* The opening of select_account (lines 154-166) and of delete_account (lines
\* 186-198): the load, the empty registry, the listing, the index typed.
\* ok: an account was picked (k: its position, acc); otherwise the operation
\* ends with the log.  list_accounts() reads the file again, unchanged since.
pick_account(ld, op, emptyMsg, rawChoice) ==
    PickLoaded(ld,
               IF ld.raised # "none"
               THEN NotPicked(Raise([BaseLog EXCEPT !.op = op], ld.raised))
               ELSE IF ld.val.v = <<>>
               THEN NotPicked(Say([BaseLog EXCEPT !.op = op], emptyMsg))
               ELSE pick_choice(ld.val.v, op, list_accounts(ld), Strip(rawChoice)))

\* lines 168-171, once an account is picked; Popen raises when signal-desktop
\* cannot be run
select_picked(pick, spawnOk, D, F) ==
    LET log2 == Say(pick.log, "Launching Signal for account")
    IN  IF ~pick.ok THEN Ret(D, F, pick.log)
        ELSE IF ~spawnOk THEN Ret(D, F, Raise(log2, "FileNotFoundError"))
        ELSE Ret(D, F, Say([log2 EXCEPT !.spawned = TRUE], "Signal launched."))

\* select_account (lines 150-171), ld being what its load_accounts() returned
select_account(ld, rawChoice, spawnOk, D, F) ==
    select_picked(pick_account(ld, "select", "No accounts to select.", rawChoice),
                  spawnOk, D, F)

\* A faulty variant of lines 173-179 that keeps the spaces of the name.
desktop_file_path_unsanitized(account_name) ==
    Home \o <<"/", ".local", "/", "share", "/", "applications", "/", "Signal", "-">>
        \o account_name \o <<".desktop">>

\* get_desktop_file_path (lines 173-179)
get_desktop_file_path(account_name) ==
    Home \o <<"/", ".local", "/", "share", "/", "applications", "/", "Signal", "-">>
        \o Replace(account_name, " ", "_") \o <<".desktop">>

\* lines 205-209: try shutil.rmtree, except Exception
rmtree_tried(r, D, F, log) ==
    IF r.raised = "none" THEN Ret(r.dirs, r.files, Say(log, "Removed directory"))
    ELSE Ret(D, F, Say(log, "Could not remove directory"))

\* delete_account lines 202-209: the optional removal of the profile directory
delete_rmtree(acc, rm_dir, rmFault, D, F, log) ==
    IF rm_dir # Yes THEN Ret(D, F, log)
    ELSE rmtree_tried(Rmtree(ProfileDirOf(acc), D, F, rmFault), D, F, log)

\* lines 214-218: try unlink, except Exception
unlink_tried(u, D, F, log) ==
    IF u.raised = "none" THEN Ret(D, u.files, Say(log, "Removed desktop icon"))
    ELSE Ret(D, F, Say(log, "Could not remove desktop icon"))

\* A faulty variant of lines 212-218 that leaves the desktop icon in place.
delete_icon_kept(desktop_file_path, unlinkFault, D, F, log) == Ret(D, F, log)

\* the text of the file the walk ends at
TextAt(w, F) == IF w.ok /\ w.p \in DOMAIN F THEN F[w.p] ELSE NotAsked

\* the record keeps the text of the desktop icon that was found
delete_icon_at(desktop_file_path, unlinkFault, D, F, log) ==
    IF ~Exists(desktop_file_path, D, F) THEN Ret(D, F, log)
    ELSE unlink_tried(Unlink(desktop_file_path, D, F, unlinkFault), D, F,
                      [log EXCEPT !.icon = TextAt(Lookup(desktop_file_path, D), F)])

\* delete_account lines 211-218: the removal of the desktop icon if it exists
delete_icon(acc, unlinkFault, D, F, log) ==
    delete_icon_at(get_desktop_file_path(NameOf(acc)), unlinkFault, D, F, log)

\* lines 222-223, sv being what save_accounts did
delete_saved(sv, s2) ==
    IF sv.raised # "none" THEN Ret(s2.dirs, s2.files, Raise(s2.log, sv.raised))
    ELSE Ret(s2.dirs, sv.files, Say(s2.log, "Account removed."))

Said(log, msg) == \E i \in 1..Len(log.out) : log.out[i] = msg

\* A faulty variant of lines 220-223 that gives up once a removal has failed.
delete_entry_unless_failed(ld, pick, s2) ==
    IF Said(s2.log, "Could not remove directory") \/ Said(s2.log, "Could not remove desktop icon")
    THEN Ret(s2.dirs, s2.files, s2.log)
    ELSE delete_saved(save_accounts(PyList(RemoveAt(ld.val.v, pick.k)), s2.dirs, s2.files), s2)

\* lines 220-223, s2 being the filesystem after the removals
delete_entry(ld, pick, s2) ==
    delete_saved(save_accounts(PyList(RemoveAt(ld.val.v, pick.k)), s2.dirs, s2.files), s2)

\* lines 211-223, s1 being the filesystem after the optional rmtree
delete_after_rmtree(ld, pick, unlinkFault, s1) ==
    delete_entry(ld, pick, delete_icon(pick.acc, unlinkFault, s1.dirs, s1.files, s1.log))

\* A faulty variant of lines 201-225 that deletes whatever was answered.
delete_unconfirmed(ld, pick, confirm, rm_dir, rmFault, unlinkFault, D, F) ==
    delete_after_rmtree(ld, pick, unlinkFault,
        delete_rmtree(pick.acc, rm_dir, rmFault, D, F,
                      [pick.log EXCEPT !.confirm = confirm, !.rm_dir = rm_dir]))

\* lines 201-225, with the answers lowered
delete_answered(ld, pick, confirm, rm_dir, rmFault, unlinkFault, D, F) ==
    IF confirm # Yes
    THEN Ret(D, F, Say([pick.log EXCEPT !.confirm = confirm], "Deletion cancelled."))
    ELSE delete_after_rmtree(ld, pick, unlinkFault,
            delete_rmtree(pick.acc, rm_dir, rmFault, D, F,
                          [pick.log EXCEPT !.confirm = confirm, !.rm_dir = rm_dir]))

\* delete_account lines 200-225, once an account is picked
delete_picked(ld, pick, rawConfirm, rawRm, rmFault, unlinkFault, D, F) ==
    delete_answered(ld, pick, Lower(rawConfirm), Lower(rawRm), rmFault, unlinkFault, D, F)

\* line 241 and the entry to the loop
startup_reconciled(a) == Ret(a.dirs, a.files, [a.log EXCEPT !.op = "start"])

\* A faulty variant of lines 236-241 that does not look for signal-desktop.
startup_unchecked(e, inst) ==
    IF e.raised # "none"
    THEN Ret(e.dirs, e.files, Raise([BaseLog EXCEPT !.op = "start"], e.raised))
    ELSE startup_reconciled(auto_add_default_signal(e.dirs, e.files))

\* lines 236-241, e being what ensure_config_dir did
startup_ensured(e, inst) ==
    IF e.raised # "none"
    THEN Ret(e.dirs, e.files, Raise([BaseLog EXCEPT !.op = "start"], e.raised))
    ELSE IF ~inst
    THEN Ret(e.dirs, e.files,
             Say([BaseLog EXCEPT !.op = "start"], "Signal Desktop is not found on this system"))
    ELSE startup_reconciled(auto_add_default_signal(e.dirs, e.files))

\* main up to its menu loop (lines 234-241)
main_startup(D, F, inst) == startup_ensured(ensure_config_dir(D, F), inst)

(***************************************************************************)
(* What the user may type, and the state machine: one action for a start   *)
(* of the process and one per pass of main's loop.  A prompt reads its     *)
(* input when the operation reaches it.                                    *)
(***************************************************************************)
TraversalToDefault == <<"x", "/", "..", "/", "Signal">>
TraversalToConfig == <<"x", "/", "..", "/", "signal_account_manager">>

RawLabels == {<<"a", " ", "b">>, <<"a", "_", "b", " ">>, TraversalToDefault, TraversalToConfig}

\* the numbers 0..MaxAccounts+1 typed with a trailing blank, -1, and a non-number
RawChoices ==
    {IntDigits(n) \o <<" ">> : n \in 0..(MaxAccounts + 1)} \cup {<<"-", "1">>, <<"x">>}

RawAnswers == {<<"Y">>, <<"n">>}

\* what the environment may refuse during a delete
Faults == {"none", "rmtree", "unlink"}

NoFiles == [p \in {} |-> <<>>]

BaseDirs == {<<>>, <<<<"home">>>>}
DefaultDirs == {<<<<"home">>, <<".config">>>>, <<<<"home">>, <<".config">>, <<"Signal">>>>}

Init ==
    /\ dirs \in {BaseDirs, BaseDirs \cup DefaultDirs}
    /\ files = NoFiles
    /\ installed \in BOOLEAN
    /\ pc = "stopped"
    /\ last = BaseLog

\* an operation of the menu loop ends in the loop, or ends the process when it raised
Apply(r) ==
    /\ dirs' = r.dirs
    /\ files' = r.files
    /\ last' = r.log
    /\ pc' = IF r.log.raised = "none" THEN "menu" ELSE "stopped"
    /\ UNCHANGED installed

ApplyStart(r) ==
    /\ dirs' = r.dirs
    /\ files' = r.files
    /\ last' = r.log
    /\ pc' = IF installed /\ r.log.raised = "none" THEN "menu" ELSE "stopped"
    /\ UNCHANGED installed

\* the record of a start keeps the registry as ensure_config_dir left it (e)
\* and whether signal-desktop was on the PATH
StartRecord(e, r) ==
    Ret(r.dirs, r.files,
        [r.log EXCEPT !.accounts = load_accounts(e.dirs, e.files).val.v,
                      !.on_path = installed])

\* main, lines 227-241: a start of the process
Start ==
    /\ pc = "stopped"
    /\ ApplyStart(StartRecord(ensure_config_dir(dirs, files),
                              main_startup(dirs, files, installed)))

\* while no process runs, signal-desktop is installed or removed: what
\* is_signal_installed (lines 46-51) finds at the next start
PathChange ==
    /\ pc = "stopped"
    /\ installed' = ~installed
    /\ UNCHANGED <<dirs, files, pc, last>>

ListLog(ld, ls) ==
    [BaseLog EXCEPT !.op = "list", !.out = ls.out, !.raised = ls.raised,
                    !.accounts = ld.val.v]

ListWith(ld) == Apply(Ret(dirs, files, ListLog(ld, list_accounts(ld))))

\* choice '1' (lines 252-253)
MenuList ==
    /\ pc = "menu"
    /\ ListWith(load_accounts(dirs, files))

AddWith(ld) ==
    /\ Len(ld.val.v) < MaxAccounts
    /\ \E rawName \in RawLabels, rawIcon \in RawAnswers :
          Apply(add_account(ld, rawName, rawIcon, dirs, files))

\* choice '2' (lines 254-255)
MenuAdd ==
    /\ pc = "menu"
    /\ AddWith(load_accounts(dirs, files))

SelectWith(ld) ==
    \E rawChoice \in RawChoices, spawnOk \in BOOLEAN :
        Apply(select_account(ld, rawChoice, spawnOk, dirs, files))

\* choice '3' (lines 256-257)
MenuSelect ==
    /\ pc = "menu"
    /\ SelectWith(load_accounts(dirs, files))

DeletePicked(ld, pick) ==
    IF ~pick.ok THEN Apply(Ret(dirs, files, pick.log))
    ELSE \E rawConfirm \in RawAnswers, rawRm \in RawAnswers, fault \in Faults :
            Apply(delete_picked(ld, pick, rawConfirm, rawRm,
                                fault = "rmtree", fault = "unlink", dirs, files))

DeleteWith(ld) ==
    \E rawChoice \in RawChoices :
        DeletePicked(ld, pick_account(ld, "delete", "No accounts to delete.", rawChoice))

\* choice '4' (lines 258-259)
MenuDelete ==
    /\ pc = "menu"
    /\ DeleteWith(load_accounts(dirs, files))

\* choice '5' (lines 260-261)
MenuExit ==
    /\ pc = "menu"
    /\ pc' = "stopped"
    /\ last' = [BaseLog EXCEPT !.op = "exit"]
    /\ UNCHANGED <<dirs, files, installed>>

\* any other choice (lines 262-263)
MenuInvalid ==
    /\ pc = "menu"
    /\ last' = [BaseLog EXCEPT !.op = "invalid", !.out = <<"Invalid choice. Please try again.">>]
    /\ UNCHANGED <<dirs, files, installed, pc>>

Next ==
    \/ Start
    \/ MenuList
    \/ MenuAdd
    \/ MenuSelect
    \/ MenuDelete
    \/ MenuExit
    \/ MenuInvalid
    \/ PathChange

Spec == Init /\ [][Next]_vars

(***************************************************************************)
(* load_accounts on its own: the registry file is overwritten with any     *)
(* bytes, and load_accounts is called on it.                               *)
(***************************************************************************)
ByteAlphabet == {"[", "]", "1", " ", "x", BadByte}

ByteStrings == UNION {[1..n -> ByteAlphabet] : n \in 0..MaxBytes}

\* the bytes of the registry file, if it is there
RegistryBytesAt(w) == IF w.ok /\ w.p \in DOMAIN files THEN files[w.p] ELSE <<"<absent>">>

RegistryBytes == RegistryBytesAt(Lookup(ACCOUNTS_JSON, dirs))

InitLoadWith(e) ==
    /\ dirs = e.dirs
    /\ files = e.files
    /\ installed = TRUE
    /\ pc = "stopped"
    /\ last = BaseLog

\* the registry file as ensure_config_dir leaves it
InitLoad == InitLoadWith(ensure_config_dir(BaseDirs, NoFiles))

\* something outside the program overwrites the registry file
WriteBytes ==
    \E bytes \in ByteStrings :
        /\ files' = OpenWrite(ACCOUNTS_JSON, bytes, dirs, files).files
        /\ last' = [BaseLog EXCEPT !.op = "write"]
        /\ UNCHANGED <<dirs, installed, pc>>

LoadLog(ld) == [BaseLog EXCEPT !.op = "load", !.raised = ld.raised, !.target = ld.val]

\* a call of load_accounts (lines 27-36): what it returned or raised
LoadCall ==
    /\ last' = LoadLog(load_accounts(dirs, files))
    /\ UNCHANGED <<dirs, files, installed, pc>>

NextLoad ==
    \/ WriteBytes
    \/ LoadCall

SpecLoad == InitLoad /\ [][NextLoad]_vars

(***************************************************************************)
(* The properties.                                                         *)
(***************************************************************************)
\* what load_accounts would return now
Persisted == load_accounts(dirs, files)

\* the registry as the program reads it now
Registry == Persisted.val.v

Menu == {"list", "add", "select", "delete"}

\* the choice is a number within [1, n]
ValidIndex(choice, n) ==
    /\ ParseInt(choice).ok
    /\ 1 <= ParseInt(choice).val
    /\ ParseInt(choice).val <= n

\* the choice is 0, n+1 or no number
EdgeIndex(choice, n) ==
    \/ ~ParseInt(choice).ok
    \/ ParseInt(choice).val \in {0, n + 1}

\* the registry entries whose profile_dir resolves to the default directory
DefaultEntries ==
    {i \in 1..Len(Registry) :
        Resolve(ProfileDirOf(Registry[i])) = Resolve(DEFAULT_SIGNAL_DIR)}

\* C1: a delete or a select whose index is 0, N+1 or not a number, N being
\* the registry's length, leaves the persisted registry as it was, whatever
\* was answered at the later prompts.
C1_EdgeIndexLeavesRegistry ==
    (last.op \in {"delete", "select"} /\ EdgeIndex(last.choice, Len(last.accounts)))
        => Persisted.raised = "none" /\ Registry = last.accounts

\* C2: select launches only when the index typed is a number within [1, N];
\* for any other input it reports an error and launches nothing.
C2_SelectLaunchesOnlyInRange ==
    (/\ last.op = "select"
     /\ last.accounts # <<>>
     /\ ~ValidIndex(last.choice, Len(last.accounts)))
        => ~last.spawned /\ Said(last, "Invalid choice.")

\* C3: in every reachable state at most one registry entry has a profile_dir
\* that resolves to the default profile directory.
C3_AtMostOneDefaultEntry == Cardinality(DefaultEntries) <= 1

ReconciledTwice(a) == auto_add_default_signal(a.dirs, a.files)

SecondChangesNothing(a, b) ==
    a.log.raised = "none"
        => /\ b.files = a.files
           /\ b.dirs = a.dirs
           /\ load_accounts(b.dirs, b.files) = load_accounts(a.dirs, a.files)

SecondReconciliationIdle(a) == SecondChangesNothing(a, ReconciledTwice(a))

\* C4: from any reachable state, when the reconciliation is called twice in
\* a row, the second call leaves the registry as the first call left it.
C4_ReconciliationIdempotent ==
    SecondReconciliationIdle(auto_add_default_signal(dirs, files))

FirstAdds(a) == a.log.raised = "none" /\ a.files # files

\* a state in which the first of the two calls adds the Default entry
C4_Witness == FirstAdds(auto_add_default_signal(dirs, files))

\* C5: a confirmed delete with a valid index i leaves the registry equal to
\* the old one without its i-th entry, and no launcher descriptor of the
\* deleted account unless its removal failed.
C5_DeleteRemovesExactlyOne ==
    (/\ last.op = "delete"
     /\ last.confirm = Yes
     /\ ValidIndex(last.choice, Len(last.accounts)))
        => /\ Persisted.raised = "none"
           /\ Registry = RemoveAt(last.accounts, ParseInt(last.choice).val)
           /\ \/ Said(last, "Could not remove desktop icon")
              \/ ~Exists(CreatedDesktopPath(NameOf(last.target)), dirs, files)

\* the entry the claim expects add to append for the label
ExpectedEntry(label) ==
    Account(label, Home \o <<"/", ".config", "/", "Signal", "-">> \o Replace(label, " ", "_"))

IsDirectory(w, D) == w.ok /\ w.p \in D

NotParseable(bytes) == ~DecodeOk(bytes) \/ ~Loads(bytes).ok

\* C7: load_accounts on a registry file whose bytes do not parse returns the
\* empty list and raises nothing.
C7_LoadToleratesCorruption ==
    (last.op = "load" /\ NotParseable(RegistryBytes))
        => last.raised = "none" /\ last.target = PyList(<<>>)

\* C8: every failure inside list, add, select or delete is handled there: the
\* operation raises nothing and the menu loop goes on.
C8_FailuresHandled ==
    last.op \in Menu => last.raised = "none" /\ pc = "menu"

RemovalFailed(log) ==
    Said(log, "Could not remove directory") \/ Said(log, "Could not remove desktop icon")

\* C9: in a confirmed delete with a valid index, a directory removal that
\* does not succeed and a descriptor that stays are reported, and after such
\* a failure the entry is still removed and the registry persisted.
C9_DeleteSurvivesRemovalFailure ==
    (/\ last.op = "delete"
     /\ last.confirm = Yes
     /\ ValidIndex(last.choice, Len(last.accounts)))
        => /\ last.rm_dir = Yes
                => Said(last, "Removed directory") \/ Said(last, "Could not remove directory")
           /\ Exists(get_desktop_file_path(NameOf(last.target)), dirs, files)
                => Said(last, "Could not remove desktop icon")
           /\ RemovalFailed(last)
                => /\ last.raised = "none"
                   /\ pc = "menu"
                   /\ Said(last, "Account removed.")
                   /\ Persisted.raised = "none"
                   /\ Registry = RemoveAt(last.accounts, ParseInt(last.choice).val)

\* a delete in which both removals failed and the entry was removed
C9_Witness ==
    /\ last.op = "delete"
    /\ Said(last, "Could not remove directory")
    /\ Said(last, "Could not remove desktop icon")
    /\ Said(last, "Account removed.")

\* C10: after a confirmed delete whose descriptor removal did not fail, no
\* file is left at the path create_desktop_icon writes for that account.
C10_DescriptorPathsAgree ==
    (/\ last.op = "delete"
     /\ last.confirm = Yes
     /\ ~Said(last, "Could not remove desktop icon"))
        => ~Exists(CreatedDesktopPath(NameOf(last.target)), dirs, files)

\* a delete that removed the descriptor of an account whose name has a space
C10_Witness ==
    /\ last.op = "delete"
    /\ Said(last, "Removed desktop icon")
    /\ NameOf(last.target) = <<"a", " ", "b">>

(***************************************************************************)
(* The runs in which no filesystem call fails: no operation raises and no  *)
(* removal is refused.                                                     *)
(***************************************************************************)
Quiet(log) == log.raised = "none" /\ ~RemovalFailed(log)

NextQuiet ==
    \/ Start /\ Quiet(last')
    \/ MenuList /\ Quiet(last')
    \/ MenuAdd /\ Quiet(last')
    \/ MenuSelect /\ Quiet(last')
    \/ MenuDelete /\ Quiet(last')
    \/ MenuExit
    \/ MenuInvalid
    \/ PathChange

SpecQuiet == Init /\ [][NextQuiet]_vars

\* the launcher descriptors on disk: the files of the applications directory
DescriptorsIn(w) == {p \in DOMAIN files : w.ok /\ IsPrefix(w.p, p) /\ p # w.p}

Descriptors == DescriptorsIn(Lookup(ApplicationsDir, dirs))

\* p is where create_desktop_icon writes the descriptor of acc
DescriptorOf(w, p) == w.ok /\ w.p = p

Owned(p) ==
    \E i \in 1..Len(Registry) :
        DescriptorOf(Lookup(CreatedDesktopPath(NameOf(Registry[i])), dirs), p)

\* C11: when no filesystem call fails, every launcher descriptor on disk is
\* the descriptor of an account that is in the registry.
C11_NoOrphanedLaunchers == \A p \in Descriptors : Owned(p)

\* an account was deleted and the descriptor of a remaining account is on disk
C11_Witness ==
    /\ last.op = "delete"
    /\ Said(last, "Account removed.")
    /\ Descriptors # {}

\* C12: a start that does not find signal-desktop prints the guidance and
\* ends without entering the menu; the registry is as ensure_config_dir left
\* it (no reconciliation) and nothing is launched.
C12_NotInstalledExits ==
    (last.op = "start" /\ ~last.on_path)
        => /\ pc = "stopped"
           /\ last.raised = "none"
           /\ Said(last, "Signal Desktop is not found on this system")
           /\ ~last.spawned
           /\ Persisted.raised = "none"
           /\ Registry = last.accounts

\* such a start with accounts registered and the default directory present
\* but not registered
C12_Witness ==
    /\ last.op = "start"
    /\ ~last.on_path
    /\ Registry # <<>>
    /\ Exists(DEFAULT_SIGNAL_DIR, dirs, files)
    /\ DefaultEntries = {}

(***************************************************************************)
(* save_accounts and load_accounts on their own: any list of account       *)
(* records is saved, and load_accounts is called on the file.              *)
(***************************************************************************)
RecordNames == {<<"a">>, <<"a", " ", Quote>>, <<Backslash, "n">>, <<"\n">>}

RecordDirs == {PathStr(DEFAULT_SIGNAL_DIR), <<"/", "tmp", "/", Backslash>>}

AccountRecords == {Account(n, d) : n \in RecordNames, d \in RecordDirs}

AccountLists == UNION {[1..n -> AccountRecords] : n \in 0..MaxRecords}

SaveLog(accounts, sv) ==
    [BaseLog EXCEPT !.op = "save", !.accounts = accounts, !.raised = sv.raised]

SaveWith(accounts, sv) ==
    /\ files' = sv.files
    /\ last' = SaveLog(accounts, sv)
    /\ UNCHANGED <<dirs, installed, pc>>

\* a call of save_accounts (lines 38-44)
SaveCall ==
    \E accounts \in AccountLists :
        SaveWith(accounts, save_accounts(PyList(accounts), dirs, files))

LoadSavedLog(ld) == [last EXCEPT !.op = "load", !.raised = ld.raised, !.target = ld.val]

\* a call of load_accounts (lines 27-36) on what was saved last
LoadSaved ==
    /\ last' = LoadSavedLog(load_accounts(dirs, files))
    /\ UNCHANGED <<dirs, files, installed, pc>>

NextSave ==
    \/ SaveCall
    \/ LoadSaved

SpecSave == InitLoad /\ [][NextSave]_vars

\* C13: load_accounts after save_accounts raises nothing and returns a list
\* equal to the saved one: the same records, fields and order.
C13_SaveLoadRoundTrip ==
    last.op = "load" => last.raised = "none" /\ last.target = PyList(last.accounts)

\* a load of two saved records whose texts need escaping
C13_Witness ==
    /\ last.op = "load"
    /\ Len(last.accounts) = 2
    /\ NameOf(last.accounts[1]) = <<"a", " ", Quote>>
    /\ ProfileDirOf(last.accounts[2]) = <<"/", "tmp", "/", Backslash>>

\* v is a record {name, profile_dir} of two texts
IsAccount(v) ==
    /\ v.t = "dict"
    /\ Len(v.v) = 2
    /\ v.v[1][2].t = "str"
    /\ v.v[2][2].t = "str"
    /\ v = Account(v.v[1][2].v, v.v[2][2].v)

Untouched(e) == e.raised = "none" /\ e.dirs = dirs /\ e.files = files

\* C14: once a start has run ensure_config_dir, in every reachable state the
\* registry file exists and parses to a list of account records, and
\* ensure_config_dir called again changes nothing.
C14_RegistryAlwaysParses ==
    last.op # "none"
        => /\ Persisted.raised = "none"
           /\ Persisted.val.t = "list"
           /\ \A i \in 1..Len(Registry) : IsAccount(Registry[i])
           /\ Untouched(ensure_config_dir(dirs, files))

\* an entry of the list resolves to the default directory
Registered(accounts) ==
    \E i \in 1..Len(accounts) :
        Resolve(ProfileDirOf(accounts[i])) = Resolve(DEFAULT_SIGNAL_DIR)

\* C15: the reconciliation of a start appends the one entry "Default", for
\* the default directory, after the entries ensure_config_dir left when that
\* directory exists and none of them resolves to it, and otherwise leaves
\* the registry as it was; it never changes an existing entry.
C15_ReconciliationFrame ==
    (last.op = "start" /\ last.on_path /\ last.raised = "none")
        => /\ Persisted.raised = "none"
           /\ IF Exists(DEFAULT_SIGNAL_DIR, dirs, files) /\ ~Registered(last.accounts)
              THEN /\ Registry = Append(last.accounts,
                                        Account(DEFAULT_ACCOUNT_NAME, PathStr(DEFAULT_SIGNAL_DIR)))
                   /\ Said(last, "Detected existing default Signal directory")
              ELSE /\ Registry = last.accounts
                   /\ last.out = <<>>

\* a start whose reconciliation added Default behind an entry already there
C15_Witness ==
    /\ last.op = "start"
    /\ Said(last, "Detected existing default Signal directory")
    /\ last.accounts # <<>>

\* the descriptor create_desktop_icon writes for the account
DescriptorText(acc) == DesktopFileContent(NameOf(acc), ProfileDirOf(acc))

\* C16: the descriptor a confirmed delete removes is not the descriptor of
\* an account that remains in the registry.
C16_DeleteSparesOtherDescriptors ==
    (last.op = "delete" /\ Said(last, "Removed desktop icon"))
        => \A i \in 1..Len(Registry) : DescriptorText(Registry[i]) # last.icon

\* C17: after any adds and deletes, every entry that remains in the registry
\* has its profile_dir existing on disk.
C17_RemainingDirsExist ==
    \A i \in 1..Len(Registry) : Exists(ProfileDirOf(Registry[i]), dirs, files)

====
